---- MODULE Spec2Model ----
(***************************************************************************)
(* Model of the chat relay of src/server.js (MySQL + Redis list + Redis    *)
(* pub/sub) and of its Redis-only variant src/server2.js.                  *)
(*                                                                         *)
(* Several server processes share one MySQL table, one Redis list and one  *)
(* pub/sub channel.  Every await of the handlers is a separate step: a     *)
(* command is issued by the synchronous part of a callback and takes       *)
(* effect at the store in a later step.  Commands issued on one Redis      *)
(* connection are executed first-in first-out; the MySQL pool has ten      *)
(* connections, so concurrent inserts complete in any order.               *)
(*                                                                         *)
(* The retention sizes of the source (500, 50, 20) are scaled down to      *)
(* MAX_RETAINED, DEFAULT_LIMIT / LRANGE_COUNT and HISTORY_LIMIT, keeping   *)
(* their order 20 < 50 < 500; every formula is stated with the names.      *)
(*                                                                         *)
(* Specifications: Spec interleaves the handlers of two clients on two      *)
(* processes; SpecIngest feeds every kind of submission, one at a time;    *)
(* SpecGet adds GET /messages; SpecFail lets commands and queries fail;    *)
(* FairSpec states the fairness of stores, channel and event loop, and     *)
(* FairServing does so with failing commands and invalid submissions.      *)
(*                                                                         *)
(* The field sid of a message is a ghost: it names the submission a        *)
(* record stems from and is never read by an action's guard or effect.     *)
(***************************************************************************)
EXTENDS Integers, Sequences, FiniteSets, TLC

\* ------------------------------------------------------------------ bounds
\* src/server.js:186 and src/server2.js:70 (lTrim -500 -1), src/server.js:103
\* (Math.min(..., 500)); 500 in the source.
MAX_RETAINED == 3
\* src/server.js:103 (req.query.limit || '50'); 50 in the source.
DEFAULT_LIMIT == 2
\* src/server2.js:43 (lRange -50 -1); 50 in the source.
LRANGE_COUNT == 2
\* src/server.js:134 (LIMIT 20); 20 in the source.
HISTORY_LIMIT == 1
\* number of send_message events over the whole run
MaxSubmits == 2
\* number of send_message events over a run of FairSpec
MaxFairSubmits == 1
\* largest value of Date.now()
MaxClock == 2
\* number of store or bus commands that may fail
MaxFailures == 1
\* number of socket connections accepted over the whole run
MaxConnects == 2
\* number of GET /messages requests over the whole run
MaxGets == 1
\* number of texts other programs publish on the channel
MaxForeign == 1

Procs == {"A", "B"}
Clients == {"a1", "b1"}
\* the process a client's socket is connected to
ProcOf(c) == IF c = "a1" THEN "A" ELSE "B"

\* ------------------------------------------------------------- JS values
\* A JS value of the ts field: undefined, or a number n (half = FALSE) or
\* n + 0.5 (half = TRUE).
Undefined == [t |-> "undefined", n |-> 0, half |-> FALSE]
Num(n) == [t |-> "number", n |-> n, half |-> FALSE]
NumHalf(n) == [t |-> "number", n |-> n, half |-> TRUE]

\* JS truthiness of a ts value: undefined and 0 are falsy
Truthy(v) == v.t = "number" /\ (v.n # 0 \/ v.half)

\* the values a client may send as ts
TsInputs == {Undefined, Num(0), Num(1), Num(2), NumHalf(1)}

\* msgObj of a send_message event; null/undefined is NullMsg; a missing
\* username or text is the empty string (both are falsy)
NullMsg == [isNull |-> TRUE, username |-> "", text |-> "", ts |-> Undefined]
Msg(u, x, ts) == [isNull |-> FALSE, username |-> u, text |-> x, ts |-> ts]
InvalidInputs == {NullMsg, Msg("", "hi", Num(1)), Msg("alice", "", Num(1))}
MsgInputs == InvalidInputs \cup {Msg("alice", "hi", ts) : ts \in TsInputs}
\* the submissions of the runs that interleave several handlers
RelayInputs ==
    {NullMsg, Msg("alice", "hi", Undefined), Msg("alice", "hi", Num(2))}

\* -------------------------------------------------------- pure functions
Min(a, b) == IF a < b THEN a ELSE b

RECURSIVE Reverse(_)
\* Array.prototype.reverse
Reverse(s) == IF s = <<>> THEN <<>> ELSE Append(Reverse(Tail(s)), Head(s))

\* a validation that forgets the text
ValidNoText(m) == ~m.isNull /\ m.username # ""

\* the validation of send_message: !msgObj || !msgObj.username || !msgObj.text
Valid(m) == ~m.isNull /\ m.username # "" /\ m.text # ""

\* msgObj.ts = msgObj.ts ?? Date.now(): a ts of 0 is kept
NormalizeTsNullish(ts, now) == IF ts.t = "undefined" THEN Num(now) ELSE ts

\* msgObj.ts = msgObj.ts || Date.now()
NormalizeTs(ts, now) == IF Truthy(ts) THEN ts ELSE Num(now)

\* the msgObj a handler works with after the validation and the ts line
Normalized(m, now, sid) ==
    [username |-> m.username, text |-> m.text, ts |-> NormalizeTs(m.ts, now),
     sid |-> sid]

\* JSON.stringify of a msgObj: a well-formed JSON text, determined by the
\* fields; finite numbers and strings are written without loss
JSONstringify(o) == [wf |-> TRUE, obj |-> o]
\* a text on the channel that is no JSON
Garbage ==
    [wf |-> FALSE,
     obj |-> [username |-> "", text |-> "", ts |-> Undefined, sid |-> 0]]
\* JSON.parse succeeds on well-formed texts only
ParseOk(s) == s.wf
JSONparse(s) == s.obj

\* the value MySQL stores in the BIGINT column ts for the parameter
\* Number(msgObj.ts): a fractional number is rounded to the nearest integer
ToBigInt(v) == IF v.half THEN v.n + 1 ELSE v.n

\* INSERT INTO messages (username, text, ts) VALUES (?, ?, ?)
InsertRow(o) ==
    [username |-> o.username, text |-> o.text, ts |-> ToBigInt(o.ts),
     sid |-> o.sid]

\* r => ({ username: r.username, text: r.text, ts: Number(r.ts) })
RowToMsg(r) ==
    [username |-> r.username, text |-> r.text, ts |-> Num(r.ts), sid |-> r.sid]

MapRows(rows) == [i \in 1..Len(rows) |-> RowToMsg(rows[i])]

\* The orders MySQL may give to rows of equal ts, which ORDER BY ts leaves
\* open: by ascending id (filesort) or by descending id (backward index scan)
TieOrders == {"idAsc", "idDesc"}

RECURSIVE OrderByTsDesc(_, _)
\* ORDER BY ts DESC over the table (kept in id order)
OrderByTsDesc(rows, tie) ==
    IF rows = <<>> THEN <<>>
    ELSE LET n == Len(rows)
             r == rows[n]
             sorted == OrderByTsDesc(SubSeq(rows, 1, n - 1), tie)
             k == Cardinality({i \in 1..Len(sorted) :
                      IF tie = "idAsc" THEN sorted[i].ts >= r.ts
                                       ELSE sorted[i].ts > r.ts})
         IN SubSeq(sorted, 1, k) \o <<r>> \o SubSeq(sorted, k + 1, Len(sorted))

\* LIMIT n, n >= 0
Limit(rows, n) == SubSeq(rows, 1, Min(n, Len(rows)))

\* SELECT username, text, ts FROM messages ORDER BY ts DESC LIMIT n
SelectRecent(rows, n, tie) == Limit(OrderByTsDesc(rows, tie), n)

\* LTRIM key -(n+1) -1: keep one element more
LTrimOneMore(list, n) ==
    IF Len(list) > n + 1
    THEN SubSeq(list, Len(list) - n, Len(list)) ELSE list
\* LTRIM key -n -1: keep the last n elements
LTrim(list, n) ==
    IF Len(list) > n THEN SubSeq(list, Len(list) - n + 1, Len(list)) ELSE list

\* LRANGE key -n -1: the last n elements, oldest first
LRange(list, n) ==
    IF Len(list) > n THEN SubSeq(list, Len(list) - n + 1, Len(list)) ELSE list

\* The query parameter limit: absent, the empty string, the decimal text of
\* an integer, or a text that starts with no digit
Absent == [kind |-> "absent", n |-> 0]
EmptyStr == [kind |-> "empty", n |-> 0]
IntStr(n) == [kind |-> "int", n |-> n]
WordStr == [kind |-> "word", n |-> 0]
LimitParams ==
    {Absent, EmptyStr, WordStr, IntStr(-1), IntStr(0), IntStr(1),
     IntStr(DEFAULT_LIMIT), IntStr(MAX_RETAINED), IntStr(MAX_RETAINED + 1)}

NaN == [t |-> "NaN", n |-> 0, half |-> FALSE]
\* parseInt(s, 10)
ParseInt(s) == IF s.kind = "int" THEN Num(s.n) ELSE NaN
\* Math.min of two numbers
MathMin(a, b) == IF a.t = "NaN" \/ b.t = "NaN" THEN NaN ELSE Num(Min(a.n, b.n))
\* req.query.limit || '50'
OrDefault(s) == IF s.kind \in {"absent", "empty"} THEN IntStr(DEFAULT_LIMIT) ELSE s
\* Math.min(parseInt(req.query.limit || '50', 10), 500)
EffectiveLimit(s) == MathMin(ParseInt(OrDefault(s)), Num(MAX_RETAINED))
\* MySQL rejects LIMIT NaN and LIMIT with a negative number
LimitAccepted(l) == l.t = "number" /\ l.n >= 0


\* ------------------------------------------------------------------ state
VARIABLES
    variant,    \* "server" (src/server.js) or "server2" (src/server2.js)
    clock,      \* Date.now()
    mysql,      \* the table messages, in id order
    redisList,  \* the Redis list MESSAGE_LIST_KEY, JSON texts, left to right
    h,          \* the send_message handlers started so far, by submission
    redisQ,     \* per process: handlers whose command on redisClient is queued
    pubQ,       \* per process: handlers whose PUBLISH on pubClient is queued
    busQ,       \* per process: channel messages on the way to its subClient
    pubLog,     \* ghost: the texts published on the channel, in order
    conn,       \* per client: whether its socket is connected
    hist,       \* per client: "pending" while the on-connect query runs
    recv,       \* per client: the events emitted to its socket, while it lives
    resp,       \* the last response of GET /messages
    count       \* the numbers of failures, connections and requests so far

vars ==
    <<variant, clock, mysql, redisList, h, redisQ, pubQ, busQ, pubLog, conn,
      hist, recv, resp, count>>

\* a message accepted before the run starts: i = 1 is the oldest
OldMsg(i) == [username |-> "bob", text |-> "old", ts |-> Num(1), sid |-> 0 - i]
OldMsgs(n) == [i \in 1..n |-> OldMsg(i)]

\* resp.store is a ghost: what the store held when the query ran
NoResp == [limit |-> Absent, status |-> 0, body |-> <<>>, store |-> <<>>]

\* The state after start(): connections made, subscription established, and
\* the stores either empty or holding MAX_RETAINED messages of earlier runs
Init ==
    /\ variant \in {"server", "server2"}
    /\ clock = 1
    /\ \E n \in {0, MAX_RETAINED} :
          /\ redisList = [i \in 1..n |-> JSONstringify(OldMsgs(n)[i])]
          /\ mysql = IF variant = "server"
                     THEN [i \in 1..n |-> InsertRow(OldMsgs(n)[i])]
                     ELSE <<>>
    /\ h = <<>>
    /\ redisQ = [p \in Procs |-> <<>>]
    /\ pubQ = [p \in Procs |-> <<>>]
    /\ busQ = [p \in Procs |-> <<>>]
    /\ pubLog = <<>>
    /\ conn = [c \in Clients |-> FALSE]
    /\ hist = [c \in Clients |-> "none"]
    /\ recv = [c \in Clients |-> <<>>]
    /\ resp = NoResp
    /\ count = [failures |-> 0, connects |-> 0, gets |-> 0, foreign |-> 0]

\* ---------------------------------------------------------------- actions
\* Date.now() advances
Tick ==
    /\ clock < MaxClock
    /\ clock' = clock + 1
    /\ UNCHANGED <<variant, mysql, redisList, h, redisQ, pubQ, busQ, pubLog,
                   conn, hist, recv, resp, count>>

\* a connection that is sent, as 'message' events, the texts its process
\* took from the channel before it connected
ConnectReplay(c) ==
    /\ ~conn[c]
    /\ count.connects < MaxConnects
    /\ conn' = [conn EXCEPT ![c] = TRUE]
    /\ hist' = [hist EXCEPT ![c] = IF variant = "server" THEN "pending" ELSE "none"]
    /\ recv' = [recv EXCEPT ![c] =
                   [i \in 1..(Len(pubLog) - Len(busQ[ProcOf(c)])) |->
                       [type |-> "message", msgs |-> <<pubLog[i].obj>>]]]
    /\ count' = [count EXCEPT !.connects = @ + 1]
    /\ UNCHANGED <<variant, clock, mysql, redisList, h, redisQ, pubQ, busQ,
                   pubLog, resp>>

\* io.on('connection'): the socket joins the broadcast set; server.js starts
\* the history query for it
Connect(c) ==
    /\ ~conn[c]
    /\ count.connects < MaxConnects
    /\ conn' = [conn EXCEPT ![c] = TRUE]
    /\ hist' = [hist EXCEPT ![c] = IF variant = "server" THEN "pending" ELSE "none"]
    /\ count' = [count EXCEPT !.connects = @ + 1]
    /\ UNCHANGED <<variant, clock, mysql, redisList, h, redisQ, pubQ, busQ,
                   pubLog, recv, resp>>

\* socket 'disconnect': the socket leaves the broadcast set and is gone with
\* what it received; a history query still running for it emits to a closed
\* socket, which has no effect
Disconnect(c) ==
    /\ conn[c]
    /\ conn' = [conn EXCEPT ![c] = FALSE]
    /\ hist' = [hist EXCEPT ![c] = "none"]
    /\ recv' = [recv EXCEPT ![c] = <<>>]
    /\ UNCHANGED <<variant, clock, mysql, redisList, h, redisQ, pubQ, busQ,
                   pubLog, resp, count>>

HistoryEvent(msgs) == [type |-> "history", msgs |-> msgs]
MessageEvent(o) == [type |-> "message", msgs |-> <<o>>]

\* the history of the on-connect query
HistoryOf(rows, tie) == MapRows(Reverse(SelectRecent(rows, HISTORY_LIMIT, tie)))

\* the on-connect history query completes
HistoryQuery(c) ==
    /\ hist[c] = "pending"
    /\ \E tie \in TieOrders :
          LET history == HistoryOf(mysql, tie)
          IN recv' = [recv EXCEPT ![c] =
                         IF Len(history) > 0
                         THEN Append(@, HistoryEvent(history)) ELSE @]
    /\ hist' = [hist EXCEPT ![c] = "none"]
    /\ UNCHANGED <<variant, clock, mysql, redisList, h, redisQ, pubQ, busQ,
                   pubLog, conn, resp, count>>

\* the on-connect history query fails: logged, nothing is emitted
HistoryQueryFail(c) ==
    /\ hist[c] = "pending"
    /\ count.failures < MaxFailures
    /\ hist' = [hist EXCEPT ![c] = "none"]
    /\ count' = [count EXCEPT !.failures = @ + 1]
    /\ UNCHANGED <<variant, clock, mysql, redisList, h, redisQ, pubQ, busQ,
                   pubLog, conn, recv, resp>>


\* the handler of submission sid is at the await named by pc
At(sid, pc) == sid \in 1..Len(h) /\ h[sid].pc = pc

\* a connection that executes the command issued last first
EnqueueFront(q, p, sid) == [q EXCEPT ![p] = <<sid>> \o @]
Enqueue(q, p, sid) == [q EXCEPT ![p] = Append(@, sid)]
Dequeue(q, p) == [q EXCEPT ![p] = Tail(@)]

\* socket.on('send_message'): validation, ts, and the first command issued
SendMessage(c, m) ==
    /\ conn[c]
    /\ LET sid == Len(h) + 1
           p == ProcOf(c)
           ok == Valid(m)
           obj == IF ok THEN Normalized(m, clock, sid)
                  ELSE [username |-> m.username, text |-> m.text, ts |-> m.ts,
                        sid |-> sid]
           first == IF variant = "server" THEN "insert" ELSE "rpush"
       IN /\ h' = Append(h, [client |-> c, proc |-> p, input |-> m, obj |-> obj,
                              now |-> clock, err |-> "",
                              pc |-> IF ok THEN first ELSE "rejected"])
          /\ redisQ' = IF ok /\ first = "rpush" THEN Enqueue(redisQ, p, sid)
                       ELSE redisQ
    /\ UNCHANGED <<variant, clock, mysql, redisList, pubQ, busQ, pubLog, conn,
                   hist, recv, resp, count>>

\* the INSERT of a handler is executed; the handler then issues its rPush
MySQLInsert(sid) ==
    /\ At(sid, "insert")
    /\ mysql' = Append(mysql, InsertRow(h[sid].obj))
    /\ h' = [h EXCEPT ![sid].pc = "rpush"]
    /\ redisQ' = Enqueue(redisQ, h[sid].proc, sid)
    /\ UNCHANGED <<variant, clock, redisList, pubQ, busQ, pubLog, conn, hist,
                   recv, resp, count>>

\* the INSERT fails: the inner catch logs, the handler goes on with rPush
MySQLInsertFail(sid) ==
    /\ At(sid, "insert")
    /\ count.failures < MaxFailures
    /\ h' = [h EXCEPT ![sid].pc = "rpush", ![sid].err = "insert"]
    /\ redisQ' = Enqueue(redisQ, h[sid].proc, sid)
    /\ count' = [count EXCEPT !.failures = @ + 1]
    /\ UNCHANGED <<variant, clock, mysql, redisList, pubQ, busQ, pubLog, conn,
                   hist, recv, resp>>

\* a handler that does not await its lTrim: when its rPush is answered it
\* issues lTrim and PUBLISH together
RedisExecNoAwait(p) ==
    /\ redisQ[p] # <<>>
    /\ LET sid == Head(redisQ[p])
       IN IF h[sid].pc = "rpush"
          THEN /\ redisList' = Append(redisList, JSONstringify(h[sid].obj))
               /\ h' = [h EXCEPT ![sid].pc = "ltrim"]
               /\ redisQ' = Enqueue(Dequeue(redisQ, p), p, sid)
               /\ pubQ' = Enqueue(pubQ, p, sid)
          ELSE /\ redisList' = LTrim(redisList, MAX_RETAINED)
               /\ h' = h
               /\ redisQ' = Dequeue(redisQ, p)
               /\ pubQ' = pubQ
    /\ UNCHANGED <<variant, clock, mysql, busQ, pubLog, conn, hist, recv, resp,
                   count>>

\* the oldest command queued on the redisClient of p is executed and its
\* handler resumes: after rPush it issues lTrim, after lTrim it issues publish
RedisExec(p) ==
    /\ redisQ[p] # <<>>
    /\ LET sid == Head(redisQ[p])
       IN IF h[sid].pc = "rpush"
          THEN /\ redisList' = Append(redisList, JSONstringify(h[sid].obj))
               /\ h' = [h EXCEPT ![sid].pc = "ltrim"]
               /\ redisQ' = Enqueue(Dequeue(redisQ, p), p, sid)
               /\ pubQ' = pubQ
          ELSE /\ redisList' = LTrim(redisList, MAX_RETAINED)
               /\ h' = [h EXCEPT ![sid].pc = "publish"]
               /\ redisQ' = Dequeue(redisQ, p)
               /\ pubQ' = Enqueue(pubQ, p, sid)
    /\ UNCHANGED <<variant, clock, mysql, busQ, pubLog, conn, hist, recv, resp,
                   count>>

\* the oldest command queued on the redisClient of p fails: the await throws
\* into the outer catch, which logs; the handler ends
RedisFail(p) ==
    /\ redisQ[p] # <<>>
    /\ count.failures < MaxFailures
    /\ LET sid == Head(redisQ[p])
       IN h' = [h EXCEPT ![sid].pc = "failed", ![sid].err = h[sid].pc]
    /\ redisQ' = Dequeue(redisQ, p)
    /\ count' = [count EXCEPT !.failures = @ + 1]
    /\ UNCHANGED <<variant, clock, mysql, redisList, pubQ, busQ, pubLog, conn,
                   hist, recv, resp>>

\* PUBLISH followed by the local echo socket.emit('message', msgObj) that
\* the handler holds as a comment
PubExecEcho(p) ==
    /\ pubQ[p] # <<>>
    /\ LET sid == Head(pubQ[p])
           text == JSONstringify(h[sid].obj)
           c == h[sid].client
       IN /\ busQ' = [q \in Procs |-> Append(busQ[q], text)]
          /\ pubLog' = Append(pubLog, text)
          /\ h' = [h EXCEPT ![sid].pc = "done"]
          /\ recv' = IF conn[c]
                     THEN [recv EXCEPT ![c] = Append(@, [type |-> "message",
                                                         msgs |-> <<h[sid].obj>>])]
                     ELSE recv
    /\ pubQ' = Dequeue(pubQ, p)
    /\ UNCHANGED <<variant, clock, mysql, redisList, redisQ, conn, hist, resp,
                   count>>

\* a PUBLISH whose text reaches the publishing process ahead of the texts
\* still on their way to it
PubExecLocalFirst(p) ==
    /\ pubQ[p] # <<>>
    /\ LET sid == Head(pubQ[p])
           text == JSONstringify(h[sid].obj)
       IN /\ busQ' = [q \in Procs |-> IF q = p THEN <<text>> \o busQ[q]
                                      ELSE Append(busQ[q], text)]
          /\ pubLog' = Append(pubLog, text)
          /\ h' = [h EXCEPT ![sid].pc = "done"]
    /\ pubQ' = Dequeue(pubQ, p)
    /\ UNCHANGED <<variant, clock, mysql, redisList, redisQ, conn, hist, recv,
                   resp, count>>

\* PUBLISH of the oldest handler queued on the pubClient of p: Redis hands
\* the text to the subscription of every process
PubExec(p) ==
    /\ pubQ[p] # <<>>
    /\ LET sid == Head(pubQ[p])
           text == JSONstringify(h[sid].obj)
       IN /\ busQ' = [q \in Procs |-> Append(busQ[q], text)]
          /\ pubLog' = Append(pubLog, text)
          /\ h' = [h EXCEPT ![sid].pc = "done"]
    /\ pubQ' = Dequeue(pubQ, p)
    /\ UNCHANGED <<variant, clock, mysql, redisList, redisQ, conn, hist, recv,
                   resp, count>>

\* a PUBLISH that fails and is issued again until it succeeds
PubFailRetry(p) ==
    /\ pubQ[p] # <<>>
    /\ count.failures < MaxFailures
    /\ LET sid == Head(pubQ[p])
       IN h' = [h EXCEPT ![sid].err = "publish"]
    /\ count' = [count EXCEPT !.failures = @ + 1]
    /\ UNCHANGED <<variant, clock, mysql, redisList, redisQ, pubQ, busQ,
                   pubLog, conn, hist, recv, resp>>

\* the PUBLISH fails: the outer catch logs; the handler ends
PubFail(p) ==
    /\ pubQ[p] # <<>>
    /\ count.failures < MaxFailures
    /\ LET sid == Head(pubQ[p])
       IN h' = [h EXCEPT ![sid].pc = "failed", ![sid].err = "publish"]
    /\ pubQ' = Dequeue(pubQ, p)
    /\ count' = [count EXCEPT !.failures = @ + 1]
    /\ UNCHANGED <<variant, clock, mysql, redisList, redisQ, busQ, pubLog, conn,
                   hist, recv, resp>>

\* another program publishes a text that is no JSON on the channel
ForeignPublish ==
    /\ count.foreign < MaxForeign
    /\ busQ' = [q \in Procs |-> Append(busQ[q], Garbage)]
    /\ pubLog' = Append(pubLog, Garbage)
    /\ count' = [count EXCEPT !.foreign = @ + 1]
    /\ UNCHANGED <<variant, clock, mysql, redisList, h, redisQ, pubQ, conn,
                   hist, recv, resp>>

\* a socket that joins the broadcast set only when its history query is done
EmitAfterHistory(p, o) ==
    [c \in Clients |->
        IF ProcOf(c) = p /\ conn[c] /\ hist[c] = "none"
        THEN Append(recv[c], [type |-> "message", msgs |-> <<o>>])
        ELSE recv[c]]

\* io.emit('message', msgObj): to every socket connected to p
Emit(p, o) ==
    [c \in Clients |->
        IF ProcOf(c) = p /\ conn[c] THEN Append(recv[c], MessageEvent(o))
        ELSE recv[c]]

\* the subscribe callback without the try/catch around JSON.parse: every
\* text is emitted
DeliverUnguarded(p) ==
    /\ busQ[p] # <<>>
    /\ recv' = Emit(p, JSONparse(Head(busQ[p])))
    /\ busQ' = Dequeue(busQ, p)
    /\ UNCHANGED <<variant, clock, mysql, redisList, h, redisQ, pubQ, pubLog,
                   conn, hist, resp, count>>

\* the subscribe callback without try/catch: a text that is no JSON throws
\* out of the callback and the subscription takes no further text
DeliverHalting(p) ==
    /\ busQ[p] # <<>>
    /\ ParseOk(Head(busQ[p]))
    /\ recv' = Emit(p, JSONparse(Head(busQ[p])))
    /\ busQ' = Dequeue(busQ, p)
    /\ UNCHANGED <<variant, clock, mysql, redisList, h, redisQ, pubQ, pubLog,
                   conn, hist, resp, count>>

\* the subscribe callback of p runs for the oldest text on its way
Deliver(p) ==
    /\ busQ[p] # <<>>
    /\ LET text == Head(busQ[p])
       IN recv' = IF ParseOk(text) THEN Emit(p, JSONparse(text)) ELSE recv
    /\ busQ' = Dequeue(busQ, p)
    /\ UNCHANGED <<variant, clock, mysql, redisList, h, redisQ, pubQ, pubLog,
                   conn, hist, resp, count>>


\* the array GET /messages of server.js answers with for the rows selected
HistoryBody(rows, n, tie) == MapRows(Reverse(SelectRecent(rows, n, tie)))

\* the array GET /messages of server2.js answers with: the limit is not read
Server2Body(list) ==
    LET last == LRange(list, LRANGE_COUNT)
    IN [i \in 1..Len(last) |-> JSONparse(last[i])]

\* res.json(parsed)
Ok(l, body, store) ==
    [limit |-> l, status |-> 200, body |-> body, store |-> store]
\* res.status(500).json({ error: 'Failed to fetch messages' })
ServerError(l, store) ==
    [limit |-> l, status |-> 500, body |-> <<>>, store |-> store]

\* the store GET /messages reads from, as messages in insertion order
ReadStore ==
    IF variant = "server" THEN MapRows(mysql)
    ELSE [i \in 1..Len(redisList) |-> JSONparse(redisList[i])]

\* app.get('/messages') with the query parameter limit = l
GetMessages(l) ==
    /\ count.gets < MaxGets
    /\ IF variant = "server"
       THEN LET n == EffectiveLimit(l)
            IN IF LimitAccepted(n)
               THEN \E tie \in TieOrders :
                       resp' = Ok(l, HistoryBody(mysql, n.n, tie), ReadStore)
               ELSE resp' = ServerError(l, ReadStore)
       ELSE resp' = Ok(l, Server2Body(redisList), ReadStore)
    /\ count' = [count EXCEPT !.gets = @ + 1]
    /\ UNCHANGED <<variant, clock, mysql, redisList, h, redisQ, pubQ, busQ,
                   pubLog, conn, hist, recv>>

\* the store read of GET /messages fails: status 500
GetMessagesFail(l) ==
    /\ count.gets < MaxGets
    /\ count.failures < MaxFailures
    /\ resp' = ServerError(l, ReadStore)
    /\ count' = [count EXCEPT !.gets = @ + 1, !.failures = @ + 1]
    /\ UNCHANGED <<variant, clock, mysql, redisList, h, redisQ, pubQ, busQ,
                   pubLog, conn, hist, recv>>

\* The relay without failures: connections, submissions and their steps
Next ==
    \/ \E c \in Clients : Connect(c)
    \/ \E c \in Clients : Disconnect(c)
    \/ \E c \in Clients : HistoryQuery(c)
    \/ \E c \in Clients, m \in RelayInputs :
          Len(h) < MaxSubmits /\ SendMessage(c, m)
    \/ \E sid \in 1..MaxSubmits : MySQLInsert(sid)
    \/ \E p \in Procs : RedisExec(p)
    \/ \E p \in Procs : PubExec(p)
    \/ \E p \in Procs : Deliver(p)

Spec == Init /\ [][Next]_vars

\* every handler so far has ended and its text has reached every process
Quiet ==
    /\ \A sid \in 1..Len(h) : h[sid].pc \in {"done", "failed", "rejected"}
    /\ \A p \in Procs : busQ[p] = <<>>

\* One client that submits one message at a time, of every kind, while the
\* clock advances: the next send_message arrives when the relay is quiet
NextIngest ==
    \/ Tick
    \/ Connect("a1")
    \/ HistoryQuery("a1")
    \/ \E m \in MsgInputs :
          Len(h) < MaxSubmits /\ Quiet /\ SendMessage("a1", m)
    \/ \E sid \in 1..MaxSubmits : MySQLInsert(sid)
    \/ \E p \in Procs : RedisExec(p)
    \/ \E p \in Procs : PubExec(p)
    \/ \E p \in Procs : Deliver(p)

SpecIngest == Init /\ [][NextIngest]_vars

\* One client, its submissions, and GET /messages with every limit
NextGet ==
    \/ Connect("a1")
    \/ HistoryQuery("a1")
    \/ \E m \in RelayInputs : Len(h) < MaxSubmits /\ SendMessage("a1", m)
    \/ \E sid \in 1..MaxSubmits : MySQLInsert(sid)
    \/ \E p \in Procs : RedisExec(p)
    \/ \E p \in Procs : PubExec(p)
    \/ \E p \in Procs : Deliver(p)
    \/ \E l \in LimitParams : GetMessages(l)

SpecGet == Init /\ [][NextGet]_vars

\* One client, valid submissions, and commands and queries that may fail
NextFail ==
    \/ Connect("a1")
    \/ HistoryQuery("a1")
    \/ HistoryQueryFail("a1")
    \/ Len(h) < MaxSubmits /\ SendMessage("a1", Msg("alice", "hi", Undefined))
    \/ \E sid \in 1..MaxSubmits : MySQLInsert(sid)
    \/ \E sid \in 1..MaxSubmits : MySQLInsertFail(sid)
    \/ \E p \in Procs : RedisExec(p)
    \/ \E p \in Procs : RedisFail(p)
    \/ \E p \in Procs : PubExec(p)
    \/ \E p \in Procs : PubFail(p)
    \/ ForeignPublish
    \/ \E p \in Procs : Deliver(p)
    \/ \E l \in {Absent} : GetMessages(l)
    \/ \E l \in {Absent} : GetMessagesFail(l)

SpecFail == Init /\ [][NextFail]_vars

\* ------------------------------------------------------------------ claims
\* the submissions whose record is in a sequence of records with a sid
Sids(seq) == {seq[i].sid : i \in 1..Len(seq)}
\* the place of the record of submission sid in seq, 0 if there is none
IndexOf(seq, sid) ==
    IF sid \in Sids(seq)
    THEN CHOOSE i \in 1..Len(seq) : seq[i].sid = sid
    ELSE 0
\* the messages of a sequence of JSON texts
Objs(texts) == [i \in 1..Len(texts) |-> texts[i].obj]
\* a submission passes the validation, stated from the specification
IsValidInput(m) == ~m.isNull /\ m.username # "" /\ m.text # ""
\* the submissions so far
Submitted == 1..Len(h)

\* C1: in every reachable state, between the steps of concurrent handlers
\* too, the Redis list and the MySQL table that GET /messages reads each
\* hold at most MAX_RETAINED messages.
C1_RetentionBound ==
    /\ Len(redisList) <= MAX_RETAINED
    /\ Len(mysql) <= MAX_RETAINED

\* C2: two valid submissions of one client, received in the order s1, s2 on
\* one connection, are persisted in that order (MySQL table, Redis list),
\* published in that order, and are in that order in the answer of
\* GET /messages.
InOrder(seq, s1, s2) ==
    IndexOf(seq, s2) # 0 => (IndexOf(seq, s1) # 0 => IndexOf(seq, s1) < IndexOf(seq, s2))
C2_PerSenderOrder ==
    \A s1, s2 \in Submitted :
        (/\ s1 < s2
         /\ h[s1].client = h[s2].client
         /\ IsValidInput(h[s1].input)
         /\ IsValidInput(h[s2].input))
        => /\ InOrder(mysql, s1, s2)
           /\ InOrder(Objs(redisList), s1, s2)
           /\ InOrder(Objs(pubLog), s1, s2)
           /\ InOrder(resp.body, s1, s2)

\* twice the value of a JS number
Twice(v) == 2 * v.n + (IF v.half THEN 1 ELSE 0)
\* the ts values of a sequence of messages never decrease
NonDecreasing(msgs) ==
    \A i, j \in 1..Len(msgs) : i < j => Twice(msgs[i].ts) <= Twice(msgs[j].ts)

\* C4: when a store write of a valid submission fails (the MySQL insert, the
\* rPush or the lTrim) and the handler has ended, the message was published.
C4_PersistFailureDoesNotBlockDelivery ==
    \A sid \in Submitted :
        (h[sid].err \in {"insert", "rpush", "ltrim"} /\ h[sid].pc \in {"done", "failed"})
        => sid \in Sids(Objs(pubLog))

\* C5: on every connection the 'history' event comes before any 'message'
\* event, holds at most HISTORY_LIMIT messages and lists them oldest first.
C5_HistoryBeforeLive ==
    \A c \in Clients : \A i, j \in 1..Len(recv[c]) :
        recv[c][j].type = "history"
        => /\ recv[c][i].type = "message" => j < i
           /\ Len(recv[c][j].msgs) <= HISTORY_LIMIT
           /\ NonDecreasing(recv[c][j].msgs)

\* the limit a request asks for, by the specification: 50 when none is
\* given or when it is not positive, else the given one, at most 500
RequestedLimit(l) ==
    IF l.kind = "int" /\ l.n > 0 THEN Min(l.n, MAX_RETAINED)
    ELSE Min(DEFAULT_LIMIT, MAX_RETAINED)

\* C6: an answer of GET /messages holds at most min(limit, 500) messages, in
\* non-decreasing ts order, and no message left out is newer than one given.
C6_HistoryQueryResult ==
    resp.status = 200
    => /\ (resp.limit.kind = "int" /\ resp.limit.n > 0)
          => Len(resp.body) <= Min(resp.limit.n, MAX_RETAINED)
       /\ resp.limit.kind = "absent"
          => Len(resp.body) <= Min(DEFAULT_LIMIT, MAX_RETAINED)
       /\ NonDecreasing(resp.body)
       /\ \A i \in 1..Len(resp.store), j \in 1..Len(resp.body) :
              resp.store[i].sid \notin Sids(resp.body)
              => Twice(resp.store[i].ts) <= Twice(resp.body[j].ts)

\* C7: every request but one with a non-numeric limit is answered with
\* status 200 and with as many messages as the limit of the specification
\* allows: 50 for no limit and for a limit that is not positive.
C7_LimitNormalization ==
    (resp.status # 0 /\ resp.limit.kind # "word")
    => /\ resp.status = 200
       /\ Len(resp.body) = Min(RequestedLimit(resp.limit), Len(resp.store))

\* C9: the message of every 'message' event equals, in username, text and
\* ts, the MySQL row and the Redis list entry of its submission.
C9_BroadcastEqualsPersisted ==
    \A c \in Clients : \A i \in 1..Len(recv[c]) :
        recv[c][i].type = "message"
        => LET o == recv[c][i].msgs[1]
           IN /\ \A k \in 1..Len(mysql) :
                     mysql[k].sid = o.sid
                     => /\ mysql[k].username = o.username
                        /\ mysql[k].text = o.text
                        /\ Num(mysql[k].ts) = o.ts
              /\ \A k \in 1..Len(redisList) :
                     redisList[k].obj.sid = o.sid
                     => /\ redisList[k].obj.username = o.username
                        /\ redisList[k].obj.text = o.text
                        /\ redisList[k].obj.ts = o.ts

\* the records of submission sid in the stores, on the channel and at clients
InMySQL(sid) == {k \in 1..Len(mysql) : mysql[k].sid = sid}
InRedisList(sid) == {k \in 1..Len(redisList) : redisList[k].obj.sid = sid}
InPubLog(sid) == {k \in 1..Len(pubLog) : pubLog[k].obj.sid = sid}
InBus(sid) == {<<p, k>> \in Procs \X (1..MaxSubmits + MaxForeign) :
                  k <= Len(busQ[p]) /\ busQ[p][k].obj.sid = sid}
ReceivedBy(c, sid) == {k \in 1..Len(recv[c]) : \E i \in 1..Len(recv[c][k].msgs) :
                          recv[c][k].msgs[i].sid = sid}
Queued(sid) == \E p \in Procs : \E k \in 1..Len(redisQ[p] \o pubQ[p]) :
                   (redisQ[p] \o pubQ[p])[k] = sid

\* C8: a submission that is null or has no username or no text leaves no
\* row in the MySQL table, no entry in the Redis list, no command queued, no
\* text on the channel and no event at any client; and the step that takes
\* it changes neither store, the channel nor what clients received.
C8_NoTrace ==
    \A sid \in Submitted :
        ~IsValidInput(h[sid].input)
        => /\ InMySQL(sid) = {}
           /\ InRedisList(sid) = {}
           /\ InPubLog(sid) = {}
           /\ InBus(sid) = {}
           /\ ~Queued(sid)
           /\ \A c \in Clients : ReceivedBy(c, sid) = {}
C8_NoChange ==
    (Len(h') = Len(h) + 1 /\ ~IsValidInput(h'[Len(h')].input))
    => UNCHANGED <<mysql, redisList, redisQ, pubQ, busQ, pubLog, recv, resp>>
C8_InvalidChangesNothing == []C8_NoTrace /\ [][C8_NoChange]_vars
\* an invalid submission was taken while the stores held messages and a
\* valid one was on its way
C8_Witness ==
    \E s1, s2 \in Submitted :
        /\ ~IsValidInput(h[s2].input)
        /\ h[s1].pc = "done"
        /\ redisList # <<>>

\* a ts the specification calls absent, zero or otherwise falsy
IsFalsyTs(v) == v.t = "undefined" \/ (v.t = "number" /\ v.n = 0 /\ ~v.half)
\* the ts the specification gives to a valid submission taken at time now
ExpectedTs(v, now) == IF IsFalsyTs(v) THEN Num(now) ELSE v

ValidInput == Msg("alice", "hi", Undefined)
NextFair ==
    \/ \E c \in Clients : Connect(c)
    \/ \E c \in Clients : Disconnect(c)
    \/ \E c \in Clients : HistoryQuery(c)
    \/ \E c \in Clients : Len(h) < MaxFairSubmits /\ SendMessage(c, ValidInput)
    \/ \E sid \in 1..MaxSubmits : MySQLInsert(sid)
    \/ \E p \in Procs : RedisExec(p)
    \/ \E p \in Procs : PubExec(p)
    \/ \E p \in Procs : Deliver(p)

\* start() on empty stores
InitEmpty == Init /\ redisList = <<>>

FairSpec ==
    /\ InitEmpty
    /\ [][NextFair]_vars
    /\ \A sid \in 1..MaxFairSubmits : WF_vars(MySQLInsert(sid))
    /\ \A p \in Procs : WF_vars(RedisExec(p))
    /\ \A p \in Procs : WF_vars(PubExec(p))
    /\ \A p \in Procs : WF_vars(Deliver(p))

\* the number of 'message' events of submission sid at client c
Copies(c, sid) ==
    Cardinality({k \in 1..Len(recv[c]) :
        recv[c][k].type = "message" /\ recv[c][k].msgs[1].sid = sid})
\* submission sid passed the validation and is not yet published
BeforePublish(sid) ==
    sid \in Submitted /\ h[sid].pc \in {"insert", "rpush", "ltrim", "publish"}

\* C3: without failures, a client of any process never holds two 'message'
\* events of one submission, and a client that is connected while an
\* accepted submission is not yet published receives its 'message' event
\* or disconnects.
C3_NeverTwo == \A c \in Clients : \A sid \in Submitted : Copies(c, sid) <= 1
C3_ExactlyOneFanOut ==
    /\ []C3_NeverTwo
    /\ \A c \in Clients : \A sid \in 1..MaxFairSubmits :
          (BeforePublish(sid) /\ conn[c]) ~> (Copies(c, sid) = 1 \/ ~conn[c])
\* a submission of a1 on process A has reached a1 and b1, once each
C3_Witness ==
    \E sid \in Submitted :
        /\ h[sid].client = "a1"
        /\ Copies("a1", sid) = 1
        /\ Copies("b1", sid) = 1

\* the texts the subscription of p has taken from the channel so far
Consumed(p) == SubSeq(pubLog, 1, Len(pubLog) - Len(busQ[p]))
\* the subscription of p takes the oldest text on its way in this step
Consumes(p) == busQ[p] # <<>> /\ busQ'[p] = Tail(busQ[p])

\* C11: a text on the channel that cannot be parsed is dropped: the step in
\* which a subscription takes it gives no event to any client, and no client
\* ever holds an event made of it; the subscription goes on: the step in
\* which it takes a well-formed text, after a dropped one too, appends the
\* 'message' event of that text to every client connected to its process.
C11_NoEventOfGarbage ==
    \A c \in Clients : \A k \in 1..Len(recv[c]) :
        recv[c][k].type = "message" => recv[c][k].msgs[1] # Garbage.obj
C11_Step ==
    \A p \in Procs :
        Consumes(p)
        => IF Head(busQ[p]).wf
           THEN \A c \in Clients :
                   (ProcOf(c) = p /\ conn[c])
                   => recv'[c] = Append(recv[c], MessageEvent(Head(busQ[p]).obj))
           ELSE recv' = recv
C11_MalformedDropped == []C11_NoEventOfGarbage /\ [][C11_Step]_vars
\* process A dropped a text that is no JSON and its client a1, connected all
\* along, received a message published after it
C11_Witness ==
    \E i, j \in 1..Len(Consumed("A")) :
        /\ i < j
        /\ ~pubLog[i].wf
        /\ pubLog[j].wf
        /\ conn["a1"]
        /\ \E k \in 1..Len(recv["a1"]) :
               recv["a1"][k] = MessageEvent(pubLog[j].obj)

\* the submissions whose PUBLISH failed
PublishFailed == {sid \in Submitted : h[sid].err = "publish"}
\* the number of messages a GET /messages without limit answers with at most
Window == Min(Min(DEFAULT_LIMIT, LRANGE_COUNT), MAX_RETAINED)
\* the records of store that are at least as new as its record at place k
NotOlder(store, k) ==
    {i \in 1..Len(store) :
        i # k /\ (i > k \/ Twice(store[i].ts) >= Twice(store[k].ts))}

\* C12: a submission whose PUBLISH failed is never on the channel and no
\* client ever holds a 'message' event of it; the failure changes neither
\* store, the Redis list holds its record when the PUBLISH fails, the MySQL
\* table keeps its row for ever and the Redis list keeps its entry until
\* MAX_RETAINED newer ones follow it; and a GET /messages made after the
\* failure returns it when fewer messages than it returns are as new.
C12_NoRelay ==
    \A sid \in PublishFailed :
        /\ InPubLog(sid) = {}
        /\ InBus(sid) = {}
        /\ \A c \in Clients : Copies(c, sid) = 0
C12_Step ==
    /\ \A sid \in 1..Len(h') :
          (h'[sid].err = "publish" /\ (sid \in Submitted => h[sid].err # "publish"))
          => /\ InRedisList(sid) # {}
             /\ UNCHANGED <<mysql, redisList>>
    /\ \A sid \in PublishFailed :
          /\ InMySQL(sid) # {} => InMySQL(sid)' # {}
          /\ \A k \in InRedisList(sid) :
                 InRedisList(sid)' # {} \/ Len(redisList) - k >= MAX_RETAINED
          /\ (resp' # resp /\ resp'.status = 200)
             => \A k \in 1..Len(resp'.store) :
                    (/\ resp'.store[k].sid = sid
                     /\ Cardinality(NotOlder(resp'.store, k)) < Window)
                    => sid \in Sids(resp'.body)
C12_PublishFailureLosesOnlyRelay == []C12_NoRelay /\ [][C12_Step]_vars
\* the PUBLISH of a submission failed, a client was connected all along, the
\* handler has ended, and GET /messages has returned the message
C12_Witness ==
    \E sid \in PublishFailed :
        /\ h[sid].pc = "failed"
        /\ conn[h[sid].client]
        /\ InRedisList(sid) # {}
        /\ variant = "server" => InMySQL(sid) # {}
        /\ resp.status = 200
        /\ sid \in Sids(resp.body)

\* One client whose submissions may be invalid, with commands and queries
\* that may fail and a foreign text on the channel.  A command that does not
\* fail is answered, and the event loop runs each callback that is due.
NextServing ==
    \/ Connect("a1")
    \/ HistoryQuery("a1")
    \/ HistoryQueryFail("a1")
    \/ \E m \in {ValidInput, NullMsg} :
          Len(h) < MaxSubmits /\ SendMessage("a1", m)
    \/ \E sid \in 1..MaxSubmits : MySQLInsert(sid)
    \/ \E sid \in 1..MaxSubmits : MySQLInsertFail(sid)
    \/ \E p \in Procs : RedisExec(p)
    \/ \E p \in Procs : RedisFail(p)
    \/ \E p \in Procs : PubExec(p)
    \/ \E p \in Procs : PubFail(p)
    \/ ForeignPublish
    \/ \E p \in Procs : Deliver(p)
    \/ \E l \in {Absent} : GetMessages(l)
    \/ \E l \in {Absent} : GetMessagesFail(l)

FairServing ==
    /\ InitEmpty
    /\ [][NextServing]_vars
    /\ \A sid \in 1..MaxSubmits : WF_vars(MySQLInsert(sid))
    /\ \A p \in Procs : WF_vars(RedisExec(p))
    /\ \A p \in Procs : WF_vars(PubExec(p))
    /\ \A p \in Procs : WF_vars(Deliver(p))

\* no further command or query fails
NoMoreFailures == count.failures = MaxFailures

\* C13: after rejected submissions, failed store writes and reads, a failed
\* PUBLISH and a text that cannot be parsed, the process goes on serving:
\* once no further command fails, every accepted submission that is not yet
\* published reaches the connected client as one 'message' event, and every
\* handler that ended without an error has its text on the channel once
\* and, with server.js, its row in the MySQL table.
C13_HandledAsUsual ==
    \A sid \in Submitted :
        (h[sid].pc = "done" /\ h[sid].err = "")
        => /\ Cardinality(InPubLog(sid)) = 1
           /\ variant = "server" => InMySQL(sid) # {}
C13_NoErrorStopsProcess ==
    /\ []C13_HandledAsUsual
    /\ \A c \in Clients : \A sid \in 1..MaxSubmits :
          (NoMoreFailures /\ BeforePublish(sid) /\ conn[c])
          ~> (Copies(c, sid) = 1 \/ ~conn[c])
\* after a failed handler and a dropped text, a later submission was
\* delivered to the client
C13_Witness ==
    \E s1, s2 \in Submitted :
        /\ s1 < s2
        /\ h[s1].pc = "failed"
        /\ \E i \in 1..Len(Consumed("A")) : ~pubLog[i].wf
        /\ h[s2].pc = "done"
        /\ Copies("a1", s2) = 1

\* the steps a handler may take from one await to the next
HandlerSteps ==
    {<<"insert", "rpush">>, <<"rpush", "ltrim">>, <<"ltrim", "publish">>,
     <<"publish", "done">>,
     <<"rpush", "failed">>, <<"ltrim", "failed">>, <<"publish", "failed">>}
\* the text of submission sid is put on the channel in this step
Publishes(sid) == InPubLog(sid) = {} /\ InPubLog(sid)' # {}

\* C14: a handler goes from the INSERT (server.js) to rPush, lTrim and
\* PUBLISH in this order, one await at a time; its row is inserted only while
\* it awaits the INSERT, its entry is appended only while it awaits rPush,
\* and its text is put on the channel only while it awaits PUBLISH, with no
\* store command of it outstanding; so a submission that is on the channel
\* has ended its INSERT attempt, its rPush and its lTrim.
C14_Published ==
    \A sid \in Submitted :
        InPubLog(sid) # {}
        => /\ h[sid].pc = "done"
           /\ ~Queued(sid)
           /\ InRedisList(sid) # {} \/ Len(h) > MAX_RETAINED
           /\ (variant = "server" /\ h[sid].err # "insert") => InMySQL(sid) # {}
C14_Step ==
    \A sid \in Submitted :
        /\ h'[sid].pc # h[sid].pc => <<h[sid].pc, h'[sid].pc>> \in HandlerSteps
        /\ Cardinality(InMySQL(sid)') > Cardinality(InMySQL(sid))
           => h[sid].pc = "insert" /\ h'[sid].pc = "rpush"
        /\ (InRedisList(sid) = {} /\ InRedisList(sid)' # {})
           => h[sid].pc = "rpush" /\ h'[sid].pc = "ltrim"
        /\ Publishes(sid)
           => h[sid].pc = "publish" /\ h'[sid].pc = "done" /\ ~Queued(sid)'
C14_SideEffectOrder == []C14_Published /\ [][C14_Step]_vars
\* a submission whose INSERT failed is on the channel while a later one of
\* the same client still awaits a store command
C14_Witness ==
    \E s1, s2 \in Submitted :
        /\ InPubLog(s1) # {}
        /\ h[s1].err = "insert"
        /\ h[s2].pc \in {"rpush", "ltrim"}

\* the 'message' events of a socket, as the submissions they carry, in order
LiveSids(c) ==
    LET ks == {k \in 1..Len(recv[c]) : recv[c][k].type = "message"}
        nth(i) == CHOOSE k \in ks : Cardinality({j \in ks : j < k}) = i - 1
    IN [i \in 1..Cardinality(ks) |-> recv[c][nth(i)].msgs[1].sid]
\* the well-formed texts process p has taken, as submissions, in order
ConsumedSids(p) ==
    LET cons == Consumed(p)
        ks == {k \in 1..Len(cons) : cons[k].wf}
        nth(i) == CHOOSE k \in ks : Cardinality({j \in ks : j < k}) = i - 1
    IN [i \in 1..Cardinality(ks) |-> cons[nth(i)].obj.sid]
\* seq is the end of whole
IsSuffix(seq, whole) ==
    /\ Len(seq) <= Len(whole)
    /\ seq = SubSeq(whole, Len(whole) - Len(seq) + 1, Len(whole))
\* s1 comes before s2 in a sequence of submissions that holds both
Before(seq, s1, s2) ==
    \E i, j \in 1..Len(seq) : i < j /\ seq[i] = s1 /\ seq[j] = s2
Holds(seq, sid) == \E i \in 1..Len(seq) : seq[i] = sid

\* C15: two clients, of one process or of two, that both hold 'message'
\* events of the submissions s1 and s2 hold them in the same order; and the
\* 'message' events of a socket are, in order and without a gap, the last
\* texts its process has taken from the channel.
C15_ConsistentDeliveryOrder ==
    /\ \A c1, c2 \in Clients : \A s1, s2 \in Submitted :
          (/\ s1 # s2
           /\ Holds(LiveSids(c1), s1) /\ Holds(LiveSids(c1), s2)
           /\ Holds(LiveSids(c2), s1) /\ Holds(LiveSids(c2), s2))
          => (Before(LiveSids(c1), s1, s2) <=> Before(LiveSids(c2), s1, s2))
    /\ \A c \in Clients : IsSuffix(LiveSids(c), ConsumedSids(ProcOf(c)))
\* the clients of the two processes both hold the messages of two
\* submissions made on different processes
C15_Witness ==
    \E s1, s2 \in Submitted :
        /\ h[s1].proc # h[s2].proc
        /\ \A c \in Clients : Holds(LiveSids(c), s1) /\ Holds(LiveSids(c), s2)

\* C16: a socket gets a 'message' event only in the step in which its
\* process takes a well-formed text from the channel, while it is connected,
\* and then exactly the event of that text, once; no step of a send_message
\* handler changes what any socket received; a socket that is not connected
\* holds nothing and gets nothing; a socket that connects starts with no
\* event, so the texts its process took before are not sent to it; and no
\* socket holds two 'message' events of one submission.
C16_State ==
    \A c \in Clients :
        /\ ~conn[c] => recv[c] = <<>>
        /\ \A i, j \in 1..Len(LiveSids(c)) :
               LiveSids(c)[i] = LiveSids(c)[j] => i = j
C16_Step ==
    /\ h' # h => recv' = recv
    /\ \A c \in Clients :
          /\ ~conn[c] => recv'[c] = <<>>
          /\ (conn[c] /\ recv'[c] # recv[c])
             => \/ ~conn'[c] /\ recv'[c] = <<>>
                \/ /\ hist[c] = "pending" /\ hist'[c] = "none"
                   /\ Len(recv'[c]) = Len(recv[c]) + 1
                   /\ SubSeq(recv'[c], 1, Len(recv[c])) = recv[c]
                   /\ recv'[c][Len(recv'[c])].type = "history"
                \/ /\ conn'[c]
                   /\ Consumes(ProcOf(c))
                   /\ Head(busQ[ProcOf(c)]).wf
                   /\ recv'[c] = Append(recv[c],
                                        MessageEvent(Head(busQ[ProcOf(c)]).obj))
C16_DeliveryOnlyThroughBus == []C16_State /\ [][C16_Step]_vars
\* a1 is connected again and holds the message of a later submission but
\* not the one of its own earlier submission, which its process took from
\* the channel
C16_Witness ==
    \E s1, s2 \in Submitted :
        /\ h[s1].client = "a1"
        /\ Holds(ConsumedSids("A"), s1)
        /\ conn["a1"]
        /\ ~Holds(LiveSids("a1"), s1)
        /\ Holds(LiveSids("a1"), s2)

\* the on-connect history query of c runs in this step, c staying connected
RunsHistoryQuery(c) == hist[c] = "pending" /\ hist'[c] = "none" /\ conn'[c]

\* C17: with server.js, every message that the process of a client took
\* from the channel before the client's connection (so that the connection
\* holds no 'message' event of it) has its row in the MySQL table when the
\* history query of that connection runs; every text a process takes from
\* the channel from the connection on, before the history query too, gives
\* the connection its 'message' event; and a row is inserted only before
\* any process has taken the text of its submission.
C17_Step ==
    /\ \A c \in Clients : \A sid \in Submitted :
          (/\ RunsHistoryQuery(c)
           /\ Holds(ConsumedSids(ProcOf(c)), sid)
           /\ ~Holds(LiveSids(c), sid))
          => InMySQL(sid) # {}
    /\ \A c \in Clients :
          (conn[c] /\ conn'[c] /\ Consumes(ProcOf(c)) /\ Head(busQ[ProcOf(c)]).wf)
          => Holds(LiveSids(c)', Head(busQ[ProcOf(c)]).obj.sid)
    /\ \A sid \in Submitted :
          InMySQL(sid)' # InMySQL(sid)
          => \A p \in Procs : ~Holds(ConsumedSids(p), sid)'
C17_NoGap == [][C17_Step]_vars
\* a connection whose history query has run holds the message of one
\* submission, received before the query ran, while the message of another
\* was taken by its process before it connected and is in the table
C17_Witness ==
    \E s1, s2 \in Submitted :
        /\ variant = "server"
        /\ conn["a1"] /\ hist["a1"] = "none"
        /\ Holds(ConsumedSids("A"), s1)
        /\ ~Holds(LiveSids("a1"), s1)
        /\ InMySQL(s1) # {}
        /\ Len(recv["a1"]) = 2
        /\ recv["a1"][1].type = "message"
        /\ recv["a1"][1].msgs[1].sid = s2
        /\ recv["a1"][2].type = "history"

\* the submissions in the 'history' events of a socket
SnapshotSids(c) ==
    {recv[c][k].msgs[i].sid :
        <<k, i>> \in {ki \in (1..Len(recv[c])) \X (1..HISTORY_LIMIT) :
                        /\ recv[c][ki[1]].type = "history"
                        /\ ki[2] <= Len(recv[c][ki[1]].msgs)}}

\* C18: on one connection no submission is both in the 'history' snapshot
\* and in a 'message' event.
C18_NoDuplicateAcrossSnapshotAndLive ==
    \A c \in Clients : \A sid \in Submitted :
        ~(sid \in SnapshotSids(c) /\ Holds(LiveSids(c), sid))

\* C19: of two submissions handled by one process that are both in the
\* Redis list and both on the channel, the one that is earlier in the list
\* is the one published first.
C19_StoreOrderMatchesPublishOrder ==
    \A s1, s2 \in Submitted :
        (/\ s1 # s2
         /\ h[s1].proc = h[s2].proc
         /\ InRedisList(s1) # {} /\ InRedisList(s2) # {}
         /\ InPubLog(s1) # {} /\ InPubLog(s2) # {})
        => (IndexOf(Objs(redisList), s1) < IndexOf(Objs(redisList), s2)
            <=> IndexOf(Objs(pubLog), s1) < IndexOf(Objs(pubLog), s2))
\* two handlers of one process ran at the same time: the submission taken
\* second was inserted and appended first, and both are published
C19_Witness ==
    \E s1, s2 \in Submitted :
        /\ s1 < s2
        /\ h[s1].proc = h[s2].proc
        /\ InPubLog(s1) # {} /\ InPubLog(s2) # {}
        /\ InRedisList(s1) # {} /\ InRedisList(s2) # {}
        /\ IndexOf(Objs(redisList), s2) < IndexOf(Objs(redisList), s1)
\* submissions of different processes are in one order in the list and in
\* the other on the channel
C19_CrossProcessOrderDiffers ==
    \E s1, s2 \in Submitted :
        /\ h[s1].proc # h[s2].proc
        /\ InPubLog(s1) # {} /\ InPubLog(s2) # {}
        /\ IndexOf(Objs(redisList), s1) # 0
        /\ IndexOf(Objs(redisList), s1) < IndexOf(Objs(redisList), s2)
        /\ IndexOf(Objs(pubLog), s2) < IndexOf(Objs(pubLog), s1)

\* the handlers whose rPush is done and whose lTrim is not: those that
\* await lTrim and those whose lTrim failed
NotYetTrimmed ==
    {sid \in Submitted :
        h[sid].pc = "ltrim" \/ (h[sid].pc = "failed" /\ h[sid].err = "ltrim")}

\* C20: the Redis list holds at most MAX_RETAINED entries plus one for
\* every handler, of any process, whose rPush is done and whose lTrim is
\* not; so it holds at most MAX_RETAINED when there is no such handler.
C20_BoundedOvershoot ==
    /\ Len(redisList) <= MAX_RETAINED + Cardinality(NotYetTrimmed)
    /\ NotYetTrimmed = {} => Len(redisList) <= MAX_RETAINED
\* handlers of both processes have pushed onto a full list and none has
\* trimmed yet
C20_Witness ==
    \E s1, s2 \in NotYetTrimmed :
        /\ h[s1].proc # h[s2].proc
        /\ Len(redisList) = MAX_RETAINED + 2

====
